---- MODULE Spec2Model ----
(***************************************************************************)
(* A model of src/src/sim.py: class MilitaryWorkforceModel.                *)
(*                                                                         *)
(* Numbers.  Populations and recruitment rates are whole persons.          *)
(* Attrition rates, promotion rates and the entries of the cross-training  *)
(* matrix are written in hundredths (0.15 is 15), the fixed cross-training *)
(* fraction 0.05 is 5 hundredths, and a derivative is written in           *)
(* ten-thousandths of a person per year (-350 is -3500000).  With these    *)
(* units every product the derivative function forms is an integer, so the *)
(* model computes the derivative exactly.                                  *)
(*                                                                         *)
(* Ranks and specialties are numbered from 1 here and from 0 in the code:  *)
(* rank r of the model is rank r-1 of the code.                            *)
(***************************************************************************)
EXTENDS Integers, Sequences, FiniteSets

VARIABLES
  attrs,      \* the model object's attributes (self.__dict__ and its methods)
  pc,         \* where the program is
  pop,        \* workforce_ode: the population grid it is evaluated at
  dpop,       \* workforce_ode: the derivative it returned
  time,       \* calculate_metrics: the time points it is given
  population, \* calculate_metrics: the population series it is given
  metrics,    \* calculate_metrics: what it returned
  years,      \* simulate: the horizon it is called with
  dt,         \* simulate: the time step it is called with
  solution,   \* simulate: what solve_ivp returned
  result,     \* simulate and run_scenario: what the call returned or raised
  kwargs,          \* run_scenario: the overrides it is called with
  original_params, \* run_scenario: the values it saved
  warnings,        \* run_scenario: the keys it warned about
  entry,           \* run_scenario: the attributes as they were when it was called
  simulated_with,  \* run_scenario: the attributes as they were when it called simulate
  callers,         \* concurrent callers of run_scenario: each one's call
  overlapped       \* concurrent callers: a call began while another was running

odeVars == <<pop, dpop>>
metricVars == <<time, population, metrics>>
simVars == <<years, dt, solution>>
scenarioVars == <<kwargs, original_params, warnings, entry, simulated_with>>
callerVars == <<callers, overlapped>>

vars == <<attrs, pc, result, odeVars, metricVars, simVars, scenarioVars, callerVars>>

None == <<>>

\* solve_ivp has not returned
NoSolution == [returned |-> FALSE]

\* the variables of an operation that is not running
NoOdeCall == pop = None /\ dpop = None
NoMetricsCall == time = None /\ population = None /\ metrics = None
NoSimulateCall == years = None /\ dt = None /\ solution = NoSolution
NoScenarioCall ==
  /\ kwargs = None /\ original_params = None /\ warnings = {}
  /\ entry = None /\ simulated_with = None
NoCallers == callers = None /\ overlapped = FALSE

(***************************************************************************)
(* Grids: a grid is a sequence of rows (ranks), a row a sequence of cells  *)
(* (specialties).                                                          *)
(***************************************************************************)
RECURSIVE SumFirst(_, _)
SumFirst(s, n) == IF n = 0 THEN 0 ELSE SumFirst(s, n - 1) + s[n]

SumSeq(s) == SumFirst(s, Len(s))

\* np.sum(pop)
SumGrid(g) == SumSeq([r \in 1..Len(g) |-> SumSeq(g[r])])

\* np.zeros((rows, cols)) and np.zeros_like(pop)
Zeros(rows, cols) == [r \in 1..rows |-> [s \in 1..cols |-> 0]]

(***************************************************************************)
(* __init__: the default attributes.                                       *)
(***************************************************************************)
DefaultPopulation ==
  << <<1000, 1200, 800>>,
     << 900, 1000, 700>>,
     << 700,  800, 600>>,
     << 500,  600, 400>>,
     << 300,  400, 200>>,
     << 100,  150,  80>> >>

DefaultCrossTraining ==
  << <<90,  5,  5>>,
     << 5, 90,  5>>,
     << 5,  5, 90>> >>

DefaultAttrs ==
  [ num_ranks             |-> 6,
    num_specialties       |-> 3,
    initial_population    |-> DefaultPopulation,
    recruitment_rates     |-> <<100, 120, 80>>,
    promotion_rates       |-> <<30, 25, 20, 15, 10, 0>>,
    attrition_rates       |-> <<15, 12, 10, 8, 5, 15>>,
    training_times        |-> <<50, 75, 33>>,
    max_service_years     |-> 20,
    cross_training_matrix |-> DefaultCrossTraining,
    simulate              |-> "method" ]

(***************************************************************************)
(* workforce_ode, the right-hand side of the system.                       *)
(***************************************************************************)
\* transfer = current_pop * transfer_rate * 0.05: the fixed fraction, in hundredths
CrossTrainingFraction == 5

(***************************************************************************)
(* The loops of workforce_ode only add to dpop, so dpop[r, s] is the       *)
(* recruitment added before the loops plus, over the iterations            *)
(* (rank, specialty) of the two loops, what each statement of the loop     *)
(* body adds to dpop[r, s].  Each operator below is one statement of the   *)
(* body: the amount that statement, run for the cell (rank, specialty),    *)
(* adds to dpop[r, s].                                                     *)
(***************************************************************************)
\* A variant of Recruitment that recruits into every rank.
RecruitmentEveryRank(self, r, s) == self.recruitment_rates[s] * 10000

\* dpop[0, :] += self.recruitment_rates   (an array of one rate is broadcast)
Recruitment(self, r, s) ==
  IF r = 1
  THEN (IF Len(self.recruitment_rates) = 1 THEN self.recruitment_rates[1]
        ELSE self.recruitment_rates[s]) * 10000
  ELSE 0

\* attrition = current_pop * self.attrition_rates[rank]
\* dpop[rank, specialty] -= attrition
Attrition(self, p, rank, specialty, r, s) ==
  LET attrition == p[rank][specialty] * self.attrition_rates[rank] * 100
  IN  IF r = rank /\ s = specialty THEN -attrition ELSE 0

\* A variant of Promotion without the test for the highest rank: the highest
\* rank loses its promotion outflow, which has no rank to arrive in.
PromotionNoTopGuard(self, p, rank, specialty, r, s) ==
  LET promotion_outflow == p[rank][specialty] * self.promotion_rates[rank] * 100
  IN  (IF r = rank /\ s = specialty THEN -promotion_outflow ELSE 0)
      + (IF r = rank + 1 /\ s = specialty THEN promotion_outflow ELSE 0)

\* if rank < self.num_ranks - 1:
\*     dpop[rank, specialty] -= promotion_outflow
\*     dpop[rank + 1, specialty] += promotion_outflow
Promotion(self, p, rank, specialty, r, s) ==
  IF rank < self.num_ranks
  THEN LET promotion_outflow == p[rank][specialty] * self.promotion_rates[rank] * 100
       IN  (IF r = rank /\ s = specialty THEN -promotion_outflow ELSE 0)
           + (IF r = rank + 1 /\ s = specialty THEN promotion_outflow ELSE 0)
  ELSE 0

\* A variant of Transfer that takes the transfer out of the cell and adds it
\* to no other cell.
TransferOutflowOnly(self, p, rank, specialty, target_specialty, r, s) ==
  IF target_specialty # specialty
  THEN LET transfer_rate == self.cross_training_matrix[specialty][target_specialty]
           transfer == p[rank][specialty] * transfer_rate * CrossTrainingFraction
       IN  IF r = rank /\ s = specialty THEN -transfer ELSE 0
  ELSE 0

\* one iteration of the loop over target_specialty:
\* if target_specialty != specialty:
\*     dpop[rank, specialty] -= transfer
\*     dpop[rank, target_specialty] += transfer
Transfer(self, p, rank, specialty, target_specialty, r, s) ==
  IF target_specialty # specialty
  THEN LET transfer_rate == self.cross_training_matrix[specialty][target_specialty]
           transfer == p[rank][specialty] * transfer_rate * CrossTrainingFraction
       IN  (IF r = rank /\ s = specialty THEN -transfer ELSE 0)
           + (IF r = rank /\ s = target_specialty THEN transfer ELSE 0)
  ELSE 0

\* for target_specialty in range(self.num_specialties)
CrossTraining(self, p, rank, specialty, r, s) ==
  SumSeq([target_specialty \in 1..self.num_specialties |->
            Transfer(self, p, rank, specialty, target_specialty, r, s)])

\* the body of the two loops for one (rank, specialty)
OdeCell(self, p, rank, specialty, r, s) ==
  Attrition(self, p, rank, specialty, r, s)
  + Promotion(self, p, rank, specialty, r, s)
  + CrossTraining(self, p, rank, specialty, r, s)

\* for rank in range(num_ranks): for specialty in range(num_specialties)
OdeLoop(self, p, r, s) ==
  SumSeq([rank \in 1..self.num_ranks |->
            SumSeq([specialty \in 1..self.num_specialties |->
                      OdeCell(self, p, rank, specialty, r, s)])])

\* workforce_ode(t, pop_flat): t is not used
workforce_ode(self, p) ==
  [r \in 1..self.num_ranks |->
     [s \in 1..self.num_specialties |->
        Recruitment(self, r, s) + OdeLoop(self, p, r, s)]]

(***************************************************************************)
(* The derivative function on bounded inputs: grids of up to MaxRanks by   *)
(* MaxSpecialties cells, and the default configuration.                    *)
(***************************************************************************)
MaxRanks == 2
MaxSpecialties == 2

CellChoices == {0, 200}
PromotionChoices == {0, 30}
AttritionChoices(ranks) == { [r \in 1..ranks |-> 0], [r \in 1..ranks |-> 10 + 2 * r] }
RecruitmentChoices(specs) == { [s \in 1..specs |-> 0], [s \in 1..specs |-> 90 + 10 * s] }
CrossTrainingChoices(specs) ==
  { [s \in 1..specs |-> [t \in 1..specs |-> 0]],
    [s \in 1..specs |-> [t \in 1..specs |-> IF s = t THEN 90 ELSE 5]],
    [s \in 1..specs |-> [t \in 1..specs |-> IF s = t THEN 0 ELSE 10 * s + t]] }

OdeConfigs ==
  UNION { { [DefaultAttrs EXCEPT
               !.num_ranks = ranks,
               !.num_specialties = specs,
               !.initial_population = Zeros(ranks, specs),
               !.recruitment_rates = rec,
               !.promotion_rates = prom,
               !.attrition_rates = att,
               !.cross_training_matrix = m] :
             rec \in RecruitmentChoices(specs),
             prom \in [1..ranks -> PromotionChoices],
             att \in AttritionChoices(ranks),
             m \in CrossTrainingChoices(specs) } :
          ranks \in 1..MaxRanks, specs \in 1..MaxSpecialties }

OdeGrids(self) ==
  [1..self.num_ranks -> [1..self.num_specialties -> CellChoices]]

InitOde ==
  /\ pc = "ode"
  /\ \/ attrs \in OdeConfigs /\ pop \in OdeGrids(attrs)
     \/ attrs = DefaultAttrs /\ pop = attrs.initial_population
     \/ /\ attrs \in { [DefaultAttrs EXCEPT !.recruitment_rates = rec,
                                            !.attrition_rates = att,
                                            !.promotion_rates = prom,
                                            !.cross_training_matrix = m] :
                         rec \in { <<0, 0, 0>>, <<100, 120, 80>> },
                         att \in { [r \in 1..6 |-> 0], <<15, 12, 10, 8, 5, 15>> },
                         prom \in { [r \in 1..6 |-> 0], <<30, 25, 20, 15, 10, 0>>,
                                    <<30, 25, 20, 15, 10, 40>> },
                         m \in { Zeros(3, 3), DefaultCrossTraining } }
        /\ pop = attrs.initial_population
  /\ dpop = None /\ result = None
  /\ NoMetricsCall /\ NoSimulateCall /\ NoScenarioCall /\ NoCallers

\* the solver calls workforce_ode on the current grid
EvalOde ==
  /\ pc = "ode"
  /\ dpop' = workforce_ode(attrs, pop)
  /\ pc' = "ode_done"
  /\ UNCHANGED <<attrs, pop, result, metricVars, simVars, scenarioVars, callerVars>>

NextOde == EvalOde

SpecOde == InitOde /\ [][NextOde]_vars

(***************************************************************************)
(* calculate_metrics.                                                      *)
(*                                                                         *)
(* A quotient of two numpy floats is a number, or nan (0 / 0), or an       *)
(* infinity (x / 0 with x not 0): numpy warns and goes on.  A number is    *)
(* kept as the fraction num / den.                                         *)
(***************************************************************************)
Max(a, b) == IF a >= b THEN a ELSE b
Min(a, b) == IF a <= b THEN a ELSE b

\* a / b on numpy floats
Div(a, b) ==
  IF b # 0      THEN [kind |-> "num", num |-> a, den |-> b]
  ELSE IF a = 0 THEN [kind |-> "nan", num |-> 0, den |-> 0]
  ELSE               [kind |-> "inf", num |-> a, den |-> 0]

\* np.sum(pop[:, c])   (c counted from 1)
SumColumn(g, c) == SumSeq([r \in 1..Len(g) |-> g[r][c]])

\* np.sum(pop[first:last, :]): rows first+1 .. last of the code's numbering;
\* a slice that runs past the grid stops at its end
SumRows(g, first, last) ==
  SumSeq([i \in 1..Max(0, Min(last, Len(g)) - first) |-> SumSeq(g[first + i])])

\* A variant of JuniorRanks: the first half of the ranks.
JuniorRanksHalf(g) == Len(g) \div 2

\* the 3 of pop[0:3, :] and pop[3:, :]
JuniorRanks(g) == 3

\* junior = np.sum(pop[0:3, :])
Junior(g) == SumRows(g, 0, JuniorRanks(g))

\* senior = np.sum(pop[3:, :])
Senior(g) == SumRows(g, JuniorRanks(g), Len(g))

\* pop[:, 0], pop[:, 1] and pop[:, 2] exist
HasThreeColumns(g) == \A r \in 1..Len(g) : Len(g[r]) >= 3

\* the body of the loop over t, for one snapshot
SnapshotMetrics(g) ==
  LET total == SumGrid(g)
      senior == Senior(g)
  IN  [ total_force            |-> total,
        combat_ratio           |-> Div(SumColumn(g, 1), total),
        technical_ratio        |-> Div(SumColumn(g, 2), total),
        support_ratio          |-> Div(SumColumn(g, 3), total),
        junior_to_senior_ratio |-> Div(Junior(g), Max(senior, 1)),
        experienced_personnel  |-> senior ]

MetricNames ==
  { "total_force", "combat_ratio", "technical_ratio", "support_ratio",
    "junior_to_senior_ratio", "experienced_personnel" }

\* calculate_metrics(time, population): one entry per time point in each of the
\* six series (raised is "no"); an IndexError when a snapshot has fewer than three
\* columns
calculate_metrics(tm, series) ==
  IF \E t \in 1..Len(tm) : ~HasThreeColumns(series[t])
  THEN [raised |-> "IndexError"]
  ELSE [ name \in MetricNames \cup {"raised"} |->
           IF name = "raised" THEN "no"
           ELSE [t \in 1..Len(tm) |-> SnapshotMetrics(series[t])[name]] ]

(***************************************************************************)
(* calculate_metrics on bounded inputs: series of up to MaxSnapshots       *)
(* snapshots of up to MaxMetricRanks ranks.                                *)
(***************************************************************************)
MaxMetricRanks == 7
MaxSnapshots == 2

RowChoices == { <<0, 0, 0>>, <<3, 2, 1>> }

MetricGrids ==
  UNION { [1..ranks -> RowChoices] : ranks \in 1..MaxMetricRanks }
  \cup { << <<0, 0>>, <<0, 0>> >>, << <<3, 2>>, <<2, 1>>, <<1, 0>>, <<4, 4>> >> }

\* the first snapshot is any grid; a later one is the first again or all zero
MetricSeries ==
  UNION { { [t \in 1..steps |-> IF t = 1 \/ t \in same THEN g
                                ELSE Zeros(Len(g), Len(g[1]))] :
              g \in MetricGrids, same \in SUBSET (2..steps) } :
          steps \in 1..MaxSnapshots }

InitMetrics ==
  /\ pc = "metrics"
  /\ attrs = DefaultAttrs
  /\ population \in MetricSeries
  /\ time = [t \in 1..Len(population) |-> t - 1]
  /\ metrics = None
  /\ result = None
  /\ NoOdeCall /\ NoSimulateCall /\ NoScenarioCall /\ NoCallers

CalculateMetrics ==
  /\ pc = "metrics"
  /\ metrics' = calculate_metrics(time, population)
  /\ pc' = "metrics_done"
  /\ UNCHANGED <<attrs, time, population, result, odeVars, simVars, scenarioVars, callerVars>>

NextMetrics == CalculateMetrics

SpecMetrics == InitMetrics /\ [][NextMetrics]_vars

(***************************************************************************)
(* Floating point.  years, dt and the time points are binary floating      *)
(* point numbers; np.arange divides and multiplies them with rounding.     *)
(* The model keeps the arithmetic (round to nearest, ties to even) and     *)
(* shortens the significand from 53 bits to FloatPrecision bits.  A float  *)
(* is kept as the fraction num / den, den a power of two, in lowest terms. *)
(***************************************************************************)
FloatPrecision == 5

RECURSIVE Pow2(_)
Pow2(n) == IF n = 0 THEN 1 ELSE 2 * Pow2(n - 1)

RECURSIVE Reduce(_, _)
Reduce(n, d) ==
  IF n = 0 THEN [num |-> 0, den |-> 1]
  ELSE IF n % 2 = 0 /\ d % 2 = 0 THEN Reduce(n \div 2, d \div 2)
  ELSE [num |-> n, den |-> d]

\* n / d rounded to the nearest integer, ties to even
RoundHalfEven(n, d) ==
  LET q == n \div d
      rem == n % d
  IN  IF 2 * rem > d \/ (2 * rem = d /\ q % 2 = 1) THEN q + 1 ELSE q

\* the float nearest to (n / d) * (sn / sd), for n / d > 0: n / d is scaled by
\* powers of two until it has FloatPrecision bits before the point
RECURSIVE RoundScaled(_, _, _, _)
RoundScaled(n, d, sn, sd) ==
  IF n >= d * Pow2(FloatPrecision) THEN RoundScaled(n, 2 * d, 2 * sn, sd)
  ELSE IF n < d * Pow2(FloatPrecision - 1) THEN RoundScaled(2 * n, d, sn, 2 * sd)
  ELSE Reduce(RoundHalfEven(n, d) * sn, sd)

\* the float nearest to n / d  (n >= 0, d > 0)
Round(n, d) == IF n = 0 THEN [num |-> 0, den |-> 1] ELSE RoundScaled(n, d, 1, 1)

\* the decimal literal tenths / 10 as a float
Decimal(tenths) == Round(tenths, 10)

FloatDiv(a, b) == Round(a.num * b.den, a.den * b.num)
FloatMulInt(i, a) == Round(i * a.num, a.den)
FloatLess(a, b) == a.num * b.den < b.num * a.den
\* math.ceil
Ceil(a) == (a.num + a.den - 1) \div a.den

\* np.arange(0, stop, step): ceil(stop / step) points, the i-th 0 + i * step
arange(stop, step) ==
  [i \in 1..Ceil(FloatDiv(stop, step)) |-> FloatMulInt(i - 1, step)]

\* initial_population.flatten(): row after row
Flatten(g) ==
  LET cols == IF Len(g) = 0 THEN 0 ELSE Len(g[1])
  IN  [i \in 1..(Len(g) * cols) |-> g[((i - 1) \div cols) + 1][((i - 1) % cols) + 1]]

\* flat.reshape(rows, cols), for Len(flat) = rows * cols
Reshape(flat, rows, cols) ==
  [r \in 1..rows |-> [s \in 1..cols |-> flat[(r - 1) * cols + s]]]

(***************************************************************************)
(* simulate.                                                               *)
(***************************************************************************)
\* what an evaluation of workforce_ode raises for these attributes, or "no":
\* reshape needs num_ranks * num_specialties cells, the recruitment rates must
\* broadcast to a row, and every rate the loops index must exist
OdeRaises(self, pop_flat) ==
  IF Len(pop_flat) # self.num_ranks * self.num_specialties THEN "ValueError"
  ELSE IF Len(self.recruitment_rates) \notin {1, self.num_specialties} THEN "ValueError"
  ELSE IF \/ Len(self.attrition_rates) < self.num_ranks
          \/ Len(self.promotion_rates) < self.num_ranks - 1
          \/ Len(self.cross_training_matrix) < self.num_specialties
          \/ \E i \in 1..Len(self.cross_training_matrix) :
                Len(self.cross_training_matrix[i]) < self.num_specialties
       THEN "IndexError"
  ELSE "no"

\* What solve_ivp may return for num_steps points to evaluate: success with a
\* column for every point, or failure (the step size fell below what the
\* tolerances need) with columns for the points passed before it failed.  The
\* first column is the initial state; the model does not integrate, and takes a
\* later column to be either the initial state again or all zero.
SolverOutcomes(y0, num_steps) ==
  { [returned |-> TRUE, success |-> ok, y |-> [t \in 1..cols |-> IF t = 1 \/ same THEN y0
                                              ELSE [i \in 1..Len(y0) |-> 0]]] :
      ok \in BOOLEAN, cols \in 0..num_steps, same \in BOOLEAN }

SolverReturns(sol, num_steps) == sol.success => Len(sol.y) = num_steps

Raised(what) == [raised |-> what]

\* simulate from the return of solve_ivp on: the reshape of solution.y to
\* num_steps snapshots (a ValueError when the solver returned fewer columns),
\* calculate_metrics, and the return
AfterSolve(self, time_points, sol) ==
  IF Len(sol.y) # Len(time_points) THEN Raised("ValueError")
  ELSE LET population_over_time ==
             [t \in 1..Len(time_points) |->
                Reshape(sol.y[t], self.num_ranks, self.num_specialties)]
           m == calculate_metrics(time_points, population_over_time)
       IN  IF m.raised # "no" THEN Raised(m.raised)
           ELSE [raised |-> "no", time |-> time_points,
                 population |-> population_over_time, metrics |-> m]

\* simulate up to the call of solve_ivp: what it raises before the solver
\* returns, or "no".  solve_ivp rejects points to evaluate beyond the horizon,
\* and evaluates workforce_ode at the initial state first.
BeforeSolve(self, yrs, step) ==
  LET time_points == arange(yrs, step)
  IN  IF \E i \in 1..Len(time_points) : FloatLess(yrs, time_points[i])
      THEN "ValueError"
      ELSE OdeRaises(self, Flatten(self.initial_population))

(***************************************************************************)
(* simulate on bounded inputs: the default model, horizons of up to        *)
(* MaxYearsTenths tenths of a year and steps of up to MaxDtTenths tenths.  *)
(***************************************************************************)
MaxYearsTenths == 25
MaxDtTenths == 8

\* the default attributes, and attributes as run_scenario leaves them during a
\* scenario: recruitment rates for two specialties, five ranks for a grid of six
SimConfigs ==
  { DefaultAttrs,
    [DefaultAttrs EXCEPT !.recruitment_rates = <<100, 120>>],
    [DefaultAttrs EXCEPT !.num_ranks = 5] }

InitSim ==
  /\ pc = "simulate"
  /\ attrs \in SimConfigs
  /\ \E y \in 1..MaxYearsTenths : years = Decimal(y)
  /\ \E d \in 1..MaxDtTenths : dt = Decimal(d)
  /\ solution = NoSolution /\ result = None
  /\ NoOdeCall /\ NoMetricsCall /\ NoScenarioCall /\ NoCallers

\* simulate(years, dt) raises before solve_ivp returns
SimulateRaises ==
  /\ pc = "simulate"
  /\ BeforeSolve(attrs, years, dt) # "no"
  /\ result' = Raised(BeforeSolve(attrs, years, dt))
  /\ pc' = "simulate_done"
  /\ UNCHANGED <<attrs, years, dt, solution, odeVars, metricVars, scenarioVars, callerVars>>

\* simulate(years, dt), solve_ivp returning sol
Simulate ==
  /\ pc = "simulate"
  /\ BeforeSolve(attrs, years, dt) = "no"
  /\ \E sol \in SolverOutcomes(Flatten(attrs.initial_population), Len(arange(years, dt))) :
       /\ SolverReturns(sol, Len(arange(years, dt)))
       /\ solution' = sol
       /\ result' = AfterSolve(attrs, arange(years, dt), sol)
  /\ pc' = "simulate_done"
  /\ UNCHANGED <<attrs, years, dt, odeVars, metricVars, scenarioVars, callerVars>>

NextSim == Simulate \/ SimulateRaises

SpecSim == InitSim /\ [][NextSim]_vars

(***************************************************************************)
(* run_scenario.  kwargs maps keys to values; the attributes are a record, *)
(* so hasattr is membership in its domain.  Among the methods, which are   *)
(* attributes too, the record holds simulate, the one run_scenario calls.  *)
(***************************************************************************)
\* hasattr(self, key)
HasAttr(self, key) == key \in DOMAIN self

\* the keys the first loop saves and overwrites
Known(self, kw) == { key \in DOMAIN kw : HasAttr(self, key) }

\* original_params after the first loop
Originals(self, kw) == [key \in Known(self, kw) |-> self[key]]

\* the keys the first loop warns about
Warnings(self, kw) == DOMAIN kw \ Known(self, kw)

\* A variant of Overridden that sets every key, known or not.
OverriddenEveryKey(self, kw) ==
  [a \in DOMAIN self \cup DOMAIN kw |-> IF a \in DOMAIN kw THEN kw[a] ELSE self[a]]

\* the attributes after the first loop: setattr(self, key, value) for the known keys
Overridden(self, kw) ==
  [a \in DOMAIN self \cup Known(self, kw) |->
     IF a \in Known(self, kw) THEN kw[a] ELSE self[a]]

\* the attributes after the second loop: setattr(self, key, value) for the saved keys
Restored(self, orig) ==
  [a \in DOMAIN self \cup DOMAIN orig |->
     IF a \in DOMAIN orig THEN orig[a] ELSE self[a]]

\* self.simulate(years), dt = 0.1, up to the call of solve_ivp: what it raises
\* before the solver returns, or "no"
CallRaises(self, yrs) ==
  IF self.simulate # "method" THEN "TypeError"
  ELSE BeforeSolve(self, yrs, Decimal(1))

(***************************************************************************)
(* run_scenario called again and again by one caller on one model.         *)
(***************************************************************************)
ScenarioKwargs ==
  { [recruitment_rates |-> <<150, 180, 120>>],
    [recruitment_rates |-> <<100, 120>>],
    [num_ranks |-> 5],
    [simulate |-> "not callable"],
    [bogus |-> 1],
    [recruitment_rate |-> <<150, 180, 120>>],
    [recruitment_rates |-> <<150, 180, 120>>, bogus |-> 1],
    [recruitment_rates |-> <<100, 120>>, recruitment_rate |-> <<150, 180, 120>>],
    [recruitment_rates |-> <<150, 180, 120>>,
     promotion_rates |-> <<30, 25, 20, 15, 10, 5>>],
    [attrition_rates |-> <<15, 12, 10>>, bogus |-> 1] }

ScenarioYears == { Decimal(2), Decimal(3) }

Init ==
  /\ pc = "idle"
  /\ attrs = DefaultAttrs
  /\ result = None
  /\ NoOdeCall /\ NoMetricsCall /\ NoSimulateCall /\ NoScenarioCall /\ NoCallers

\* the first loop of run_scenario(name, yrs, **kw), for both actions below
EnterScenario(kw, yrs) ==
  /\ pc \in {"idle", "returned", "raised"}
  /\ kwargs' = kw
  /\ entry' = attrs
  /\ original_params' = Originals(attrs, kw)
  /\ warnings' = Warnings(attrs, kw)
  /\ simulated_with' = Overridden(attrs, kw)
  /\ years' = yrs
  /\ dt' = Decimal(1)
  /\ UNCHANGED <<odeVars, metricVars, callerVars>>

\* run_scenario when simulate raises: the exception leaves run_scenario before
\* the second loop
ScenarioRaised(res) ==
  /\ result' = res
  /\ attrs' = simulated_with'
  /\ pc' = "raised"

\* run_scenario when simulate returns: the second loop, then the return
ScenarioReturned(res) ==
  /\ result' = res
  /\ attrs' = Restored(simulated_with', original_params')
  /\ pc' = "returned"

\* run_scenario(name, yrs, **kw), simulate raising before solve_ivp returns
RunScenarioRaises ==
  \E kw \in ScenarioKwargs, yrs \in ScenarioYears :
    /\ EnterScenario(kw, yrs)
    /\ CallRaises(Overridden(attrs, kw), yrs) # "no"
    /\ solution' = NoSolution
    /\ ScenarioRaised(Raised(CallRaises(Overridden(attrs, kw), yrs)))

\* run_scenario(name, yrs, **kw), solve_ivp returning sol
RunScenario ==
  \E kw \in ScenarioKwargs, yrs \in ScenarioYears :
    /\ EnterScenario(kw, yrs)
    /\ CallRaises(Overridden(attrs, kw), yrs) = "no"
    /\ LET self == Overridden(attrs, kw)
           time_points == arange(yrs, Decimal(1))
       IN  \E sol \in SolverOutcomes(Flatten(self.initial_population), Len(time_points)) :
             /\ SolverReturns(sol, Len(time_points))
             /\ solution' = sol
             /\ LET res == AfterSolve(self, time_points, sol)
                IN  IF res.raised # "no" THEN ScenarioRaised(res)
                    ELSE ScenarioReturned(res)

Next == RunScenario \/ RunScenarioRaises

Spec == Init /\ [][Next]_vars

(***************************************************************************)
(* run_scenario called by several callers on one model, each once.  The    *)
(* callers' statements interleave: saving a value, overwriting an          *)
(* attribute, calling simulate and restoring an attribute are steps of     *)
(* their own.  simulate reads the attributes as they are when it is        *)
(* called.                                                                 *)
(***************************************************************************)
NumCallers == 2

Callers == 1..NumCallers

ConcurrentKwargs ==
  { [recruitment_rates |-> <<150, 180, 120>>],
    [recruitment_rates |-> <<50, 60, 40>>],
    [recruitment_rates |-> <<100, 120>>],
    [recruitment_rates |-> <<50, 60, 40>>, bogus |-> 1] }

ConcurrentYears == Decimal(2)

\* setattr(self, key, value)
SetAttr(self, key, value) ==
  [a \in DOMAIN self \cup {key} |-> IF a = key THEN value ELSE self[a]]

NotCalled ==
  [ at |-> "idle", kwargs |-> None, pending |-> {}, key |-> "",
    original_params |-> None, warnings |-> {}, simulated_with |-> None,
    raised |-> "no" ]

Running(c) == callers[c].at \notin {"idle", "done"}

InitCallers ==
  /\ pc = "callers"
  /\ attrs = DefaultAttrs
  /\ callers = [c \in Callers |-> NotCalled]
  /\ overlapped = FALSE
  /\ result = None
  /\ NoOdeCall /\ NoMetricsCall /\ NoSimulateCall /\ NoScenarioCall

ToCaller(c, rec) ==
  /\ callers' = [callers EXCEPT ![c] = rec]
  /\ UNCHANGED <<pc, result, odeVars, metricVars, simVars, scenarioVars>>

\* caller c enters run_scenario: original_params = {}
Call(c) ==
  /\ callers[c].at = "idle"
  /\ \E kw \in ConcurrentKwargs :
       ToCaller(c, [callers[c] EXCEPT !.at = "first_loop", !.kwargs = kw,
                                      !.pending = DOMAIN kw])
  /\ overlapped' = (overlapped \/ \E d \in Callers \ {c} : Running(d))
  /\ UNCHANGED attrs

\* the first loop, a known key: original_params[key] = getattr(self, key)
Save(c) ==
  /\ callers[c].at = "first_loop"
  /\ \E key \in callers[c].pending :
       /\ HasAttr(attrs, key)
       /\ ToCaller(c, [callers[c] EXCEPT
                         !.at = "overwrite", !.key = key,
                         !.original_params =
                            SetAttr(callers[c].original_params, key, attrs[key])])
  /\ UNCHANGED <<attrs, overlapped>>

\* the first loop, a known key: setattr(self, key, value)
Overwrite(c) ==
  /\ callers[c].at = "overwrite"
  /\ attrs' = SetAttr(attrs, callers[c].key, callers[c].kwargs[callers[c].key])
  /\ ToCaller(c, [callers[c] EXCEPT !.at = "first_loop",
                                    !.pending = @ \ {callers[c].key}])
  /\ UNCHANGED overlapped

\* the first loop, an unknown key: the warning
Warn(c) ==
  /\ callers[c].at = "first_loop"
  /\ \E key \in callers[c].pending :
       /\ ~HasAttr(attrs, key)
       /\ ToCaller(c, [callers[c] EXCEPT !.pending = @ \ {key},
                                         !.warnings = @ \cup {key}])
  /\ UNCHANGED <<attrs, overlapped>>

\* what self.simulate(years) raises with solve_ivp returning sol, or "no"
SimulateOutcome(self, yrs, sol) ==
  IF CallRaises(self, yrs) # "no" THEN CallRaises(self, yrs)
  ELSE AfterSolve(self, arange(yrs, Decimal(1)), sol).raised

\* results = self.simulate(years); an exception leaves run_scenario
CallSimulate(c) ==
  /\ callers[c].at = "first_loop"
  /\ callers[c].pending = {}
  /\ \E sol \in SolverOutcomes(Flatten(attrs.initial_population),
                               Len(arange(ConcurrentYears, Decimal(1)))) :
       /\ SolverReturns(sol, Len(arange(ConcurrentYears, Decimal(1))))
       /\ LET raised == SimulateOutcome(attrs, ConcurrentYears, sol)
          IN  ToCaller(c, [callers[c] EXCEPT
                             !.at = IF raised = "no" THEN "second_loop" ELSE "done",
                             !.pending = DOMAIN callers[c].original_params,
                             !.simulated_with = attrs,
                             !.raised = raised])
  /\ UNCHANGED <<attrs, overlapped>>

\* the second loop: setattr(self, key, value) for a saved key
Restore(c) ==
  /\ callers[c].at = "second_loop"
  /\ \E key \in callers[c].pending :
       /\ attrs' = SetAttr(attrs, key, callers[c].original_params[key])
       /\ ToCaller(c, [callers[c] EXCEPT !.pending = @ \ {key}])
  /\ UNCHANGED overlapped

\* return results
Return(c) ==
  /\ callers[c].at = "second_loop"
  /\ callers[c].pending = {}
  /\ ToCaller(c, [callers[c] EXCEPT !.at = "done"])
  /\ UNCHANGED <<attrs, overlapped>>

NextCallers ==
  \E c \in Callers :
    Call(c) \/ Save(c) \/ Overwrite(c) \/ Warn(c) \/ CallSimulate(c)
    \/ Restore(c) \/ Return(c)

SpecCallers == InitCallers /\ [][NextCallers]_vars

(***************************************************************************)
(* Claims about the derivative function, checked under SpecOde.            *)
(***************************************************************************)
AllZero(seq) == \A i \in 1..Len(seq) : seq[i] = 0
AllZeroGrid(g) == \A r \in 1..Len(g) : AllZero(g[r])

AtDefault == pc = "ode_done" /\ attrs = DefaultAttrs /\ pop = DefaultPopulation

\* C3 (as stated): at the default configuration and the default initial population
\* the derivative of the rank-0 / specialty-0 cell is -355.
C3_DefaultCellIsMinus355 == AtDefault => dpop[1][1] = -355 * 10000

\* C3 (amended): at the default configuration and the default initial population
\* the derivative of the rank-0 / specialty-0 cell is -350: 100 recruitment, -150
\* attrition, -300 promotion, -5 cross-training outflow and +5 cross-training
\* inflow (3 from Technical, 2 from Support).
C3_DefaultCellIsMinus350 ==
  AtDefault => /\ dpop[1][1] = -350 * 10000
               /\ dpop[1][1] = 100 * 10000 - 150 * 10000 - 300 * 10000
                               - 5 * 10000 + (3 + 2) * 10000

C3_Witness == AtDefault

NoRecruitmentNoAttrition ==
  pc = "ode_done" /\ AllZero(attrs.recruitment_rates) /\ AllZero(attrs.attrition_rates)

\* what cross-training brings into cell (rank, s) less what it takes out of it
NetCrossTraining(rank, s) ==
  SumSeq([t \in 1..attrs.num_specialties |->
            IF t = s THEN 0
            ELSE (pop[rank][t] * attrs.cross_training_matrix[t][s]
                  - pop[rank][s] * attrs.cross_training_matrix[s][t])
                 * CrossTrainingFraction])

\* C4: with every recruitment and attrition rate zero, the entries of the
\* derivative sum to zero (the total population is constant), and a cell of the
\* most senior rank changes only by the promotions arriving from the rank below
\* and by cross-training: its own promotion rate takes nothing out of it.
C4_Conservation ==
  NoRecruitmentNoAttrition =>
    /\ SumGrid(dpop) = 0
    /\ \A s \in 1..attrs.num_specialties :
         LET top == attrs.num_ranks
         IN  dpop[top][s] =
               (IF top > 1 THEN pop[top - 1][s] * attrs.promotion_rates[top - 1] * 100
                           ELSE 0)
               + NetCrossTraining(top, s)

C4_Witness ==
  /\ NoRecruitmentNoAttrition
  /\ attrs.num_ranks >= 2 /\ attrs.num_specialties >= 2
  /\ attrs.promotion_rates[attrs.num_ranks] > 0
  /\ attrs.promotion_rates[1] > 0
  /\ attrs.cross_training_matrix[1][2] > 0
  /\ \A r \in 1..attrs.num_ranks : pop[r][1] > 0
  /\ dpop[1][1] < 0

RecruitmentOnly ==
  /\ pc = "ode_done"
  /\ AllZero(attrs.attrition_rates)
  /\ AllZero(attrs.promotion_rates)
  /\ AllZeroGrid(attrs.cross_training_matrix)

\* C5: with attrition rates, promotion rates and the cross-training matrix all
\* zero, the derivative of each rank-0 cell is the recruitment rate of its
\* specialty, whatever the current counts, and the derivative of every cell of
\* every other rank is zero.
C5_RecruitmentOnly ==
  RecruitmentOnly =>
    \A r \in 1..attrs.num_ranks : \A s \in 1..attrs.num_specialties :
       dpop[r][s] = IF r = 1 THEN attrs.recruitment_rates[s] * 10000 ELSE 0

C5_Witness ==
  /\ RecruitmentOnly
  /\ attrs.num_ranks >= 2
  /\ \A s \in 1..attrs.num_specialties : attrs.recruitment_rates[s] > 0
  /\ \E r \in 1..attrs.num_ranks : \E s \in 1..attrs.num_specialties : pop[r][s] > 0

(***************************************************************************)
(* Claims about calculate_metrics, checked under SpecMetrics.              *)
(***************************************************************************)
MetricsDone == pc = "metrics_done" /\ metrics.raised = "no"

IsZero(x) == x.kind = "num" /\ x.num = 0

\* C2: on a snapshot whose cells are all zero the three specialty ratios are 0
\* (not nan, not an error) and the junior/senior ratio is 0 / 1 = 0.
C2_RatioGuard ==
  MetricsDone =>
    \A t \in 1..Len(time) :
      AllZeroGrid(population[t]) =>
        /\ IsZero(metrics.combat_ratio[t])
        /\ IsZero(metrics.technical_ratio[t])
        /\ IsZero(metrics.support_ratio[t])
        /\ metrics.junior_to_senior_ratio[t] = Div(0, 1)

\* the sum of ranks first .. last of a snapshot (ranks counted from 1)
RankSum(g, first, last) ==
  SumSeq([r \in 1..Len(g) |-> IF first <= r /\ r <= last THEN SumSeq(g[r]) ELSE 0])

\* C10 (as stated): for every number of ranks the junior group is the first half
\* of the ranks (rounded either way) and the senior group the remaining ranks;
\* junior_to_senior_ratio is junior_sum / max(senior_sum, 1) and
\* experienced_personnel is the senior sum.
C10_FirstHalfJunior ==
  MetricsDone =>
    \A t \in 1..Len(time) :
      LET g == population[t]
      IN  \E half \in { Len(g) \div 2, (Len(g) + 1) \div 2 } :
            /\ metrics.junior_to_senior_ratio[t] =
                 Div(RankSum(g, 1, half), Max(RankSum(g, half + 1, Len(g)), 1))
            /\ metrics.experienced_personnel[t] = RankSum(g, half + 1, Len(g))

\* C10 (amended): for every number of ranks the junior group is the first three
\* ranks (every rank when there are fewer than three) and the senior group is
\* every rank from the fourth on, which is the first half and the remainder
\* only for six ranks; junior_to_senior_ratio is junior_sum / max(senior_sum, 1)
\* and experienced_personnel is the senior sum.
C10_FirstThreeJunior ==
  MetricsDone =>
    \A t \in 1..Len(time) :
      LET g == population[t]
      IN  /\ metrics.junior_to_senior_ratio[t] =
               Div(RankSum(g, 1, 3), Max(RankSum(g, 4, Len(g)), 1))
          /\ metrics.experienced_personnel[t] = RankSum(g, 4, Len(g))

C10_Witness ==
  /\ MetricsDone
  /\ \E t \in 1..Len(time) :
       /\ Len(population[t]) = 4
       /\ \A r \in 1..4 : population[t][r] = <<3, 2, 1>>
       /\ metrics.junior_to_senior_ratio[t] = Div(18, 6)
       /\ metrics.experienced_personnel[t] = 6

(***************************************************************************)
(* Claims about simulate, checked under SpecSim.                           *)
(***************************************************************************)
SimulateDone == pc = "simulate_done"

\* C7: when the solver ends without success, simulate reports a solver failure
\* and returns no population series or metrics built from the solver's output.
C7_SolverFailureReported ==
  (SimulateDone /\ solution.returned /\ ~solution.success) =>
     result.raised = "SolverFailure"

\* C8: the time points simulate returns start at 0, increase, and are all strictly
\* below the horizon (the horizon itself is never a time point); the population
\* series and every metric series have one entry per time point.
C8_TimeGrid ==
  (SimulateDone /\ result.raised = "no") =>
     /\ result.time[1] = Decimal(0)
     /\ \A i \in 1..Len(result.time) :
          /\ FloatLess(result.time[i], years)
          /\ i > 1 => FloatLess(result.time[i - 1], result.time[i])
     /\ Len(result.population) = Len(result.time)
     /\ \A name \in MetricNames : Len(result.metrics[name]) = Len(result.time)

(***************************************************************************)
(* Claims about run_scenario called by one caller, checked under Spec.     *)
(***************************************************************************)
ScenarioDone == pc \in {"returned", "raised"}

\* the keys of the call that named an attribute when it was made
OverriddenKeys == DOMAIN kwargs \cap DOMAIN entry

\* C1: once run_scenario has ended, every overridden attribute has the value it
\* had before the call, whether simulate returned or raised.
C1_RestoredOnEveryPath ==
  ScenarioDone => \A key \in OverriddenKeys : attrs[key] = entry[key]

\* C6: a key that names no attribute is warned about and nothing else: it
\* creates no attribute, is not saved for restoration, and no attribute that
\* the call does not name changes; simulate is called all the same, and a call
\* whose keys are all unknown simulates the unchanged model and ends as that
\* simulation ends.
C6_UnknownKeysIgnored ==
  ScenarioDone =>
    /\ warnings = DOMAIN kwargs \ DOMAIN entry
    /\ DOMAIN attrs = DOMAIN entry
    /\ DOMAIN simulated_with = DOMAIN entry
    /\ DOMAIN original_params = OverriddenKeys
    /\ \A a \in DOMAIN entry \ DOMAIN kwargs :
         attrs[a] = entry[a] /\ simulated_with[a] = entry[a]
    /\ OverriddenKeys = {} =>
         /\ simulated_with = entry
         /\ attrs = entry
         /\ IF CallRaises(entry, years) # "no"
            THEN result = Raised(CallRaises(entry, years))
            ELSE /\ solution.returned
                 /\ result = AfterSolve(entry, arange(years, dt), solution)

C6_Witness ==
  /\ pc = "returned"
  /\ kwargs = [bogus |-> 1]
  /\ warnings = {"bogus"}
  /\ result.raised = "no"
  /\ Len(result.time) = 3

(***************************************************************************)
(* Claims about concurrent callers of run_scenario, checked under          *)
(* SpecCallers.                                                            *)
(***************************************************************************)
AllDone == \A c \in Callers : callers[c].at = "done"

\* caller c simulated with every value it asked for
SimulatedOwn(c) ==
  \A key \in DOMAIN callers[c].original_params :
     callers[c].simulated_with[key] = callers[c].kwargs[key]

\* every attribute some caller overrode has the value it had before any call
AllAsBefore ==
  \A c \in Callers : \A key \in DOMAIN callers[c].original_params :
     attrs[key] = DefaultAttrs[key]

\* C9: when the calls run one after another, no call simulates with another
\* call's override and, after all calls have finished, every overridden
\* attribute has the value it had before any call started.
C9_SerialCallsAreSafe ==
  (AllDone /\ ~overlapped) => (AllAsBefore /\ \A c \in Callers : SimulatedOwn(c))

\* C9, the interleaved case: two calls that override the same attribute
\* overlap, neither raises, one simulates with the other's override, and after
\* both have finished the attribute is not what it was before either started.
C9_InterleavedUnsafe ==
  /\ AllDone /\ overlapped
  /\ \A c \in Callers : callers[c].raised = "no"
  /\ \E c \in Callers : ~SimulatedOwn(c)
  /\ attrs.recruitment_rates # DefaultAttrs.recruitment_rates

====
